---- MODULE Spec2Model ----
(***************************************************************************)
(* Model of HaloCMEDetector (backend/scripts/halo_cme_detector.py): the    *)
(* detector object's containers (swis_data, cme_catalog, features,         *)
(* thresholds, model, scaler, config) and its public operations.           *)
(*                                                                         *)
(* SpecPreprocess covers the two preprocessing entry points on raw        *)
(* samples: HaloCMEDetector.preprocess_data and                            *)
(* SWISDataLoader.preprocess_data (backend/scripts/swis_data_loader.py).   *)
(* SpecPipeline has every stage of the detector, preprocessing included,   *)
(* on short raw series; SpecRun follows run_complete_analysis through its  *)
(* stages (run holds the position of the call).                            *)
(*                                                                         *)
(* Floating point values are exact fractions [num, den]; den = 0 is NaN    *)
(* (the result of 0/0).  Feature values are integers, NaN is a sentinel.   *)
(* Time is counted in ticks of 30 seconds, flux in 1e8 particles/(cm^2 s). *)
(***************************************************************************)
EXTENDS Integers, Sequences, FiniteSets, TLC

VARIABLES data_dir, swis_data, cme_catalog, features, thresholds, model,
          scaler, config, ret, run

vars == <<data_dir, swis_data, cme_catalog, features, thresholds, model,
          scaler, config, ret, run>>

(* ------------------------------ bounds -------------------------------- *)
MaxRows == 4
MaxEvents == 2
MaxSamples == 3
\* limit=30 of both interpolate calls, scaled down
GapLimit == 1
\* ticks per bucket of time_resolution '1T'
Cadence == 2

(* --------------------------- program constants ------------------------ *)
\* ticks in one hour
TicksPerHour == 120
\* timedelta(hours=h)
Hours(h) == h * TicksPerHour

WindowBeforeHours == 6
DefaultCmeWindowHours == 72
MinVotes == 2
DefaultMlThreshold == 50

(* ------------------------------ values -------------------------------- *)
NaN == -999
None == <<>>
Some(x) == <<x>>
IsNone(o) == o = <<>>
Get(o) == o[1]

Frac(n, d) == [num |-> n, den |-> d]
NaNFrac == Frac(0, 0)
IsNaNFrac(x) == x.den = 0
ZeroFrac == Frac(0, 1)

\* a <= b on fractions; every comparison with NaN is false
FracLeq(a, b) == /\ ~IsNaNFrac(a) /\ ~IsNaNFrac(b)
                 /\ a.num * b.den <= b.num * a.den

KeyParameters == <<"velocity_enhancement", "density_enhancement", "anomaly_score",
                   "velocity_gradient_3h", "dynamic_pressure">>
KeySet == {KeyParameters[i] : i \in 1..Len(KeyParameters)}
MlKeys == {"ml_probability_threshold", "ml_feature_importance"}
Methods == {"statistical", "ml", "hybrid", "bogus"}

\* the substring test  'ml_' in k  over the keys a ThresholdSet can hold
HasMlPrefix(k) == k \in MlKeys

Params == <<"proton_velocity", "proton_density", "proton_temperature", "proton_flux">>
ParamSet == {Params[i] : i \in 1..Len(Params)}

Num(n) == Frac(n, 1)
Abs(n) == IF n < 0 THEN -n ELSE n

RECURSIVE Gcd(_, _)
Gcd(a, b) == IF b = 0 THEN a ELSE Gcd(b, a % b)

\* the same number in lowest terms
Reduce(x) == IF x.den = 0 THEN NaNFrac
             ELSE Frac(x.num \div Gcd(Abs(x.num), x.den), x.den \div Gcd(Abs(x.num), x.den))

FracAdd(a, b) == Reduce(Frac(a.num * b.den + b.num * a.den, a.den * b.den))

\* a + (k / n) * (b - a)
Lerp(a, b, k, n) ==
    Reduce(Frac(a.num * b.den * n + k * (b.num * a.den - a.num * b.den),
                a.den * b.den * n))

(* ------------------------------ raw input ----------------------------- *)
SeqsUpTo(S, n) == UNION {[1..k -> S] : k \in 0..n}

SampleKinds == {"slow", "fast", "spike", "dropout"}

\* slow, gusty and fast wind are valid; a spike has an unphysical velocity,
\* a dropout has no density reading
RawSample(t, kind) ==
    [timestamp |-> t,
     proton_velocity |-> CASE kind = "slow" -> Num(400)
                           [] kind = "gusty" -> Num(550)
                           [] kind = "spike" -> Num(1500)
                           [] OTHER -> Num(700),
     proton_density |-> CASE kind = "dropout" -> NaNFrac
                          [] kind = "fast" -> Num(15)
                          [] OTHER -> Num(5),
     proton_temperature |-> IF kind \in {"fast", "dropout"} THEN Num(300000)
                            ELSE Num(100000),
     proton_flux |-> IF kind \in {"fast", "dropout"} THEN Num(10) ELSE Num(2)]

\* sample times: two in the first minute, one three minutes later
TickInputs == {0, 1, 6}
RawSamples == {RawSample(t, kind) : t \in TickInputs, kind \in SampleKinds}
RawInputs == SeqsUpTo(RawSamples, MaxSamples)

RawCols == {"timestamp"} \cup ParamSet

(* ------------------------------ inputs -------------------------------- *)
\* Solar-wind regimes a row can be in.  The regime is told by the velocity
\* and stands for everything extract_features computes from the row.
Profiles == {"quiet", "gust", "storm"}

RegimeOf(velocity) == IF FracLeq(Num(650), velocity) THEN "storm"
                      ELSE IF FracLeq(Num(500), velocity) THEN "gust"
                      ELSE "quiet"

\* key feature values extract_features derives for a row of each regime
ProfileFeatures(p) ==
    CASE p = "quiet" -> [k \in KeySet |->
             CASE k = "dynamic_pressure" -> 2
               [] k = "velocity_gradient_3h" -> -1
               [] OTHER -> 0]
      [] p = "gust"  -> [k \in KeySet |->
             CASE k = "velocity_enhancement" -> 0
               [] k = "density_enhancement" -> 0
               [] k = "anomaly_score" -> 2
               [] k = "velocity_gradient_3h" -> 1
               [] OTHER -> 1]
      [] OTHER       -> [k \in KeySet |->
             CASE k = "velocity_enhancement" -> 2
               [] k = "density_enhancement" -> 3
               [] k = "anomaly_score" -> 6
               [] k = "velocity_gradient_3h" -> 2
               [] OTHER -> 4]

\* timestamps of the samples of a series, by position: hours 3, 4, 5, 82
TimeOf(i) == Hours(IF i <= 3 THEN 2 + i ELSE 78 + i)

\* a series of n samples: slow wind with the samples first..last of kind
\* (first > last: no disturbed sample)
SeriesOf(n, first, last, kind) ==
    [i \in 1..n |-> RawSample(TimeOf(i), IF first <= i /\ i <= last THEN kind ELSE "slow")]
SeriesInputs == {SeriesOf(n, a, b, kind) :
                    <<n, a, b, kind>> \in {q \in (1..MaxRows) \X (1..MaxRows) \X (0..MaxRows)
                                                  \X {"gusty", "fast"} :
                                              /\ q[2] <= q[1] /\ q[3] <= q[1]
                                              /\ (q[3] >= q[2] \/ (q[2] = 1 /\ q[3] = 0))}}

Arrivals == {Hours(10), Hours(11)}
CatalogOf(as) == [i \in 1..Len(as) |-> [estimated_arrival |-> as[i]]]
CatalogInputs == {CatalogOf(as) : as \in SeqsUpTo(Arrivals, MaxEvents)}

\* what a classifier can answer: class-1 probability in percent
ProbaVals == {10, 90}
\* the forests a training run can produce, as regime -> class-1 probability
Classifiers == {pr \in [Profiles -> ProbaVals] : pr["quiet"] = 10}
\* cut-offs roc_curve can propose: a score, or one above every score
RocCutoffs == {10, 90, 190}

(* --------------------------- return values ---------------------------- *)
NoTable == [cols |-> {}, rows |-> <<>>]
Ret(op, arg, status, error, table, trace) ==
    [op |-> op, arg |-> arg, status |-> status, error |-> error, table |-> table,
     trace |-> trace]
Ok(op, arg, table, trace) == Ret(op, arg, "ok", "", table, trace)
Err(op, arg, error, trace) == Ret(op, arg, "error", error, NoTable, trace)

(* ---------------------------- __init__ -------------------------------- *)
NoModel == [trained |-> FALSE, proba |-> [p \in Profiles |-> 0], cols |-> {}]
NoScaler == [fitted |-> FALSE, cols |-> {}]
EmptyThresholds == [k \in {} |-> NaNFrac]

Containers ==
    /\ swis_data = None
    /\ cme_catalog = None
    /\ features = None
    /\ thresholds = EmptyThresholds
    /\ model = NoModel
    /\ scaler = NoScaler
    /\ ret = Ok("__init__", "", NoTable, <<>>)

\* no run_complete_analysis call has been made
NoRun == [status |-> "idle", trace |-> <<>>, error |-> "", detection_results |-> NoTable]

DetectorInit ==
    /\ Containers
    /\ config = [cme_window_hours |-> DefaultCmeWindowHours]
    /\ run = NoRun

Init ==
    /\ data_dir \in [series : SeriesInputs, events : CatalogInputs]
    /\ DetectorInit

(* ------------------------------ loading ------------------------------- *)
load_cme_catalog ==
    /\ cme_catalog' = Some(data_dir.events)
    /\ ret' = Ok("load_cme_catalog", "", NoTable, <<>>)
    /\ UNCHANGED <<data_dir, swis_data, features, thresholds, model, scaler, config>>

\* rows in the order of sort_values('timestamp'), ties in input order
RECURSIVE SortByTimestamp(_)
SortByTimestamp(rows) ==
    IF rows = <<>> THEN <<>>
    ELSE LET rest == SortByTimestamp(Tail(rows))
             before == SelectSeq(rest, LAMBDA r : r.timestamp < Head(rows).timestamp)
             after == SelectSeq(rest, LAMBDA r : r.timestamp >= Head(rows).timestamp)
         IN before \o <<Head(rows)>> \o after

load_swis_data ==
    /\ swis_data' = Some(SortByTimestamp(data_dir.series))
    /\ ret' = Ok("load_swis_data", "", NoTable, <<>>)
    /\ UNCHANGED <<data_dir, cme_catalog, features, thresholds, model, scaler, config>>

(* ------------------------- extract_features --------------------------- *)
\* rows needed before a centered rolling window / lagged difference yields
\* any value (360 and 181 samples in the source, scaled down)
RollingRows == 2
RollingCols == {"velocity_enhancement", "density_enhancement", "anomaly_score",
                "velocity_gradient_3h"}

\* features.fillna(method='ffill').fillna(method='bfill'): the row whose
\* values a row without measurements ends up with (0: no row has any)
FillSource(series, i) ==
    LET valid == {j \in 1..Len(series) : ~IsNaNFrac(series[j].proton_velocity)}
        before == {j \in valid : j <= i}
        after == {j \in valid : j > i}
    IN IF before # {} THEN CHOOSE j \in before : \A k \in before : k <= j
       ELSE IF after # {} THEN CHOOSE j \in after : \A k \in after : j <= k
       ELSE 0

FeatureRow(series, i) ==
    LET src == FillSource(series, i)
        regime == IF src = 0 THEN "quiet" ELSE RegimeOf(series[src].proton_velocity)
    IN [timestamp |-> series[i].timestamp, profile |-> regime,
        v |-> [k \in KeySet |->
                  IF src = 0 \/ (Len(series) < RollingRows /\ k \in RollingCols)
                  THEN NaN ELSE ProfileFeatures(regime)[k]]]

\* len(param_data) > 1024 of the source, scaled down
WaveletRows == 3
WaveletCols == {"velocity_wavelet_detail_1", "velocity_wavelet_detail_2",
                "velocity_wavelet_detail_3", "density_wavelet_detail_1",
                "density_wavelet_detail_2", "density_wavelet_detail_3"}

\* the test guarding the wavelet block
HasWavelet(n) == n > WaveletRows

FeatureTable(series) ==
    [cols |-> {"timestamp", "profile"} \cup KeySet
                 \cup (IF HasWavelet(Len(series)) THEN WaveletCols ELSE {}),
     rows |-> [i \in 1..Len(series) |-> FeatureRow(series, i)]]

extract_features ==
    /\ IF IsNone(swis_data)
       THEN /\ ret' = Err("extract_features", "", "No SWIS data available", <<>>)
            /\ UNCHANGED features
       ELSE /\ features' = Some(FeatureTable(Get(swis_data)))
            /\ ret' = Ok("extract_features", "", FeatureTable(Get(swis_data)), <<>>)
    /\ UNCHANGED <<data_dir, swis_data, cme_catalog, thresholds, model, scaler, config>>

(* -------------------------- label_cme_events -------------------------- *)
\* variant: the window end is taken before the arrival (sign slip)
InWindow_EndBeforeArrival(t, cme, hours) ==
    /\ t >= cme.estimated_arrival - Hours(WindowBeforeHours)
    /\ t <= cme.estimated_arrival - Hours(hours)

InWindow(t, cme, hours) ==
    /\ t >= cme.estimated_arrival - Hours(WindowBeforeHours)
    /\ t <= cme.estimated_arrival + Hours(hours)

\* variant: the label is assigned per event instead of only being raised
MarkEvent_Exclusive(rows, cme, hours) ==
    [i \in 1..Len(rows) |->
        [rows[i] EXCEPT !.is_cme = IF InWindow(rows[i].timestamp, cme, hours) THEN 1 ELSE 0]]

\* one pass of the loop body: rows inside the event's window are set to 1
MarkEvent(rows, cme, hours) ==
    [i \in 1..Len(rows) |->
        IF InWindow(rows[i].timestamp, cme, hours)
        THEN [rows[i] EXCEPT !.is_cme = 1] ELSE rows[i]]

RECURSIVE MarkEvents(_, _, _)
MarkEvents(rows, catalog, hours) ==
    IF catalog = <<>> THEN rows
    ELSE MarkEvents(MarkEvent(rows, Head(catalog), hours), Tail(catalog), hours)

WithColumn(r, name, val) == [k \in DOMAIN r \cup {name} |-> IF k = name THEN val ELSE r[k]]

\* variant: only the rows inside some window are returned
LabelTable_OnlyEvents(table, catalog, hours) ==
    [cols |-> table.cols \cup {"is_cme"},
     rows |-> SelectSeq(MarkEvents([i \in 1..Len(table.rows) |->
                                       WithColumn(table.rows[i], "is_cme", 0)],
                                   catalog, hours),
                        LAMBDA r : r.is_cme = 1)]

LabelTable(table, catalog, hours) ==
    [cols |-> table.cols \cup {"is_cme"},
     rows |-> MarkEvents([i \in 1..Len(table.rows) |-> WithColumn(table.rows[i], "is_cme", 0)],
                         catalog, hours)]

LabelError == IF IsNone(features) THEN "Features not extracted"
              ELSE IF IsNone(cme_catalog) THEN "CME catalog not loaded"
              ELSE ""

Labeled == LabelTable(Get(features), Get(cme_catalog), config.cme_window_hours)

label_cme_events ==
    /\ ret' = IF LabelError # "" THEN Err("label_cme_events", "", LabelError, <<>>)
              ELSE Ok("label_cme_events", "", Labeled, <<>>)
    /\ UNCHANGED <<data_dir, swis_data, cme_catalog, features, thresholds, model, scaler, config>>

(* ----------------------- _statistical_thresholds ---------------------- *)
RECURSIVE Insert(_, _)
Insert(x, s) == IF s = <<>> THEN <<x>>
                ELSE IF x <= Head(s) THEN <<x>> \o s
                ELSE <<Head(s)>> \o Insert(x, Tail(s))

RECURSIVE Sorted(_)
Sorted(s) == IF s = <<>> THEN <<>> ELSE Insert(Head(s), Sorted(Tail(s)))

\* Series.quantile(0.95): NaN entries are skipped, linear interpolation
\* between the two order statistics around position 0.95 * (n - 1)
Quantile95(vals) ==
    LET nn == SelectSeq(vals, LAMBDA x : x # NaN)
        n == Len(nn)
        s == Sorted(nn)
        pos == (n - 1) * 95
        lo == pos \div 100 + 1
        r == pos % 100
    IN IF n = 0 THEN NaNFrac
       ELSE IF r = 0 THEN Frac(100 * s[lo], 100)
       ELSE Frac(100 * s[lo] + r * (s[lo + 1] - s[lo]), 100)

\* variant: the percentile is taken over all rows
Background_AllRows(labeled) == labeled.rows

Background(labeled) == SelectSeq(labeled.rows, LAMBDA r : r.is_cme = 0)

Column(rows, param) == [i \in 1..Len(rows) |-> rows[i].v[param]]

StatisticalThresholds(labeled) ==
    [param \in KeySet \cap labeled.cols |->
        Quantile95(Column(Background(labeled), param))]

(* --------------------------- _ml_thresholds --------------------------- *)
AllNaN(table, col) == col \in KeySet /\ \A i \in 1..Len(table.rows) : table.rows[i].v[col] = NaN

\* the feature_cols comprehension (line 530 and line 635)
FeatureCols(table, excluded) ==
    {c \in table.cols : c \notin excluded /\ ~AllNaN(table, c)}

ClassCount(labeled, c) == Cardinality({i \in 1..Len(labeled.rows) : labeled.rows[i].is_cme = c})

\* ceil(0.3 * n) test rows, the rest for training
TestRows(n) == (3 * n + 9) \div 10

\* "" when training goes through, else the exception that stops it
TrainError(labeled) ==
    LET n == Len(labeled.rows)
    IN IF ClassCount(labeled, 0) = 0 \/ ClassCount(labeled, 1) = 0
       THEN "IndexError: class_weights"
       ELSE IF ClassCount(labeled, 0) < 2 \/ ClassCount(labeled, 1) < 2
       THEN "ValueError: least populated class"
       ELSE IF TestRows(n) < 2 \/ n - TestRows(n) < 2
       THEN "ValueError: split smaller than number of classes"
       ELSE ""

Scores(labeled, proba) == {proba[labeled.rows[i].profile] : i \in 1..Len(labeled.rows)}

MlKeyOrder == <<"ml_probability_threshold", "ml_feature_importance">>

\* every (scaler, model, thresholds) a successful training can leave
MlOutcomes(labeled) ==
    LET cols == FeatureCols(labeled, {"timestamp", "is_cme"})
    IN {[scaler |-> [fitted |-> TRUE, cols |-> cols],
         model |-> [trained |-> TRUE, proba |-> pr, cols |-> cols],
         thresholds |-> [k \in MlKeys |-> IF k = MlKeyOrder[1] THEN Frac(cut, 100)
                                          ELSE ZeroFrac]] :
          <<pr, cut>> \in {pc \in Classifiers \X RocCutoffs :
                              pc[2] \in Scores(labeled, pc[1]) \cup {190}}}

(* ------------------------ determine_thresholds ------------------------ *)
Merge(f, g) == [k \in DOMAIN f \cup DOMAIN g |-> IF k \in DOMAIN g THEN g[k] ELSE f[k]]

Outcome(status, error, th, m, sc, trace) ==
    [status |-> status, error |-> error, thresholds |-> th, model |-> m,
     scaler |-> sc, trace |-> trace]

\* variant: a failed calibration leaves an empty threshold set behind
Failed_Cleared(error, trace) ==
    Outcome("error", error, EmptyThresholds, model, scaler, trace)

\* an exception raised before line 502 and before line 547
Failed(error, trace) == Outcome("error", error, thresholds, model, scaler, trace)

\* all outcomes of determine_thresholds(method) in the current state
DetermineOutcomes(method) ==
    IF LabelError # "" THEN {Failed(LabelError, <<"label_cme_events">>)}
    ELSE IF method = "statistical"
    THEN {Outcome("ok", "", StatisticalThresholds(Labeled), model, scaler,
                  <<"label_cme_events", "_statistical_thresholds">>)}
    ELSE IF method = "ml"
    THEN IF TrainError(Labeled) # ""
         THEN {Failed(TrainError(Labeled), <<"label_cme_events", "_ml_thresholds">>)}
         ELSE {Outcome("ok", "", o.thresholds, o.model, o.scaler,
                       <<"label_cme_events", "_ml_thresholds">>) : o \in MlOutcomes(Labeled)}
    ELSE IF method = "hybrid"
    THEN IF TrainError(Labeled) # ""
         THEN {Failed(TrainError(Labeled),
                      <<"label_cme_events", "_statistical_thresholds", "_ml_thresholds">>)}
         ELSE {Outcome("ok", "", Merge(StatisticalThresholds(Labeled), o.thresholds),
                       o.model, o.scaler,
                       <<"label_cme_events", "_statistical_thresholds", "_ml_thresholds">>) :
                  o \in MlOutcomes(Labeled)}
    ELSE {Failed("Unknown threshold method", <<"label_cme_events">>)}

DetermineCall(method) ==
    \E o \in DetermineOutcomes(method) :
        /\ thresholds' = o.thresholds
        /\ model' = o.model
        /\ scaler' = o.scaler
        /\ ret' = Ret("determine_thresholds", method, o.status, o.error, NoTable, o.trace)
        /\ UNCHANGED <<data_dir, swis_data, cme_catalog, features, config>>

determine_thresholds == \E method \in Methods : DetermineCall(method)

(* -------------------------- detect_cme_events ------------------------- *)
\* variant: a value equal to its threshold counts as exceeding it
Exceeds_AtLeast(v, th) == v # NaN /\ ~IsNaNFrac(th) /\ v * th.den >= th.num

\* results[param] > threshold: false when either side is NaN
Exceeds(v, th) == v # NaN /\ ~IsNaNFrac(th) /\ v * th.den > th.num

\* detection_score of a row after the loop over self.thresholds.items()
DetectionScore(row, cols, th) ==
    Cardinality({param \in DOMAIN th :
                    /\ param \in cols
                    /\ ~HasMlPrefix(param)
                    /\ Exceeds(row.v[param], th[param])})

StatKeyCount(th) == Cardinality({k \in DOMAIN th : ~HasMlPrefix(k)})

\* numerator / denominator as numpy divides: 0/0 is NaN
Divide(n, d) == Frac(n, d)

StatRow(row, cols, th) ==
    [k \in DOMAIN row \cup {"stat_detection", "stat_confidence"} |->
        IF k = "stat_detection"
        THEN (IF DetectionScore(row, cols, th) >= MinVotes THEN 1 ELSE 0)
        ELSE IF k = "stat_confidence"
        THEN Divide(DetectionScore(row, cols, th), StatKeyCount(th))
        ELSE row[k]]

StatStep(table, th) ==
    [cols |-> table.cols \cup {"stat_detection", "stat_confidence"},
     rows |-> [i \in 1..Len(table.rows) |-> StatRow(table.rows[i], table.cols, th)]]

\* self.thresholds.get('ml_probability_threshold', 0.5)
MlThreshold(th) == IF "ml_probability_threshold" \in DOMAIN th
                   THEN th["ml_probability_threshold"]
                   ELSE Frac(DefaultMlThreshold, 100)

MlRow(row, m, th) ==
    [k \in DOMAIN row \cup {"ml_detection", "ml_confidence"} |->
        IF k = "ml_detection"
        THEN (IF m.proba[row.profile] * MlThreshold(th).den > MlThreshold(th).num * 100
              THEN 1 ELSE 0)
        ELSE IF k = "ml_confidence" THEN Frac(m.proba[row.profile], 100)
        ELSE row[k]]

MlStep(table, m, th) ==
    [cols |-> table.cols \cup {"ml_detection", "ml_confidence"},
     rows |-> [i \in 1..Len(table.rows) |-> MlRow(table.rows[i], m, th)]]

\* np.maximum: NaN if either operand is NaN
Maximum(a, b) == IF IsNaNFrac(a) \/ IsNaNFrac(b) THEN NaNFrac
                 ELSE IF FracLeq(a, b) THEN b ELSE a

\* results.get(col, 0)
GetOr(row, cols, col, default) == IF col \in cols THEN row[col] ELSE default

\* variant: the hybrid flag needs both policies to agree
HybridRow_BothAgree(row, cols) ==
    [k \in DOMAIN row \cup {"hybrid_detection", "hybrid_confidence"} |->
        IF k = "hybrid_detection"
        THEN (IF GetOr(row, cols, "stat_detection", 0) = 1
                 /\ GetOr(row, cols, "ml_detection", 0) = 1 THEN 1 ELSE 0)
        ELSE IF k = "hybrid_confidence"
        THEN Maximum(GetOr(row, cols, "stat_confidence", ZeroFrac),
                     GetOr(row, cols, "ml_confidence", ZeroFrac))
        ELSE row[k]]

HybridRow(row, cols) ==
    [k \in DOMAIN row \cup {"hybrid_detection", "hybrid_confidence"} |->
        IF k = "hybrid_detection"
        THEN (IF GetOr(row, cols, "stat_detection", 0) = 1
                 \/ GetOr(row, cols, "ml_detection", 0) = 1 THEN 1 ELSE 0)
        ELSE IF k = "hybrid_confidence"
        THEN Maximum(GetOr(row, cols, "stat_confidence", ZeroFrac),
                     GetOr(row, cols, "ml_confidence", ZeroFrac))
        ELSE row[k]]

HybridStep(table) ==
    [cols |-> table.cols \cup {"hybrid_detection", "hybrid_confidence"},
     rows |-> [i \in 1..Len(table.rows) |-> HybridRow(table.rows[i], table.cols)]]

RunsStat(method) == method \in {"statistical", "hybrid"}
RunsMl(method, m) == method \in {"ml", "hybrid"} /\ m.trained

\* scaler.transform refuses a column list other than the fitted one
TransformError(table, sc) ==
    IF FeatureCols(table, {"timestamp", "stat_detection", "stat_confidence"}) # sc.cols
    THEN "ValueError: feature names" ELSE ""

\* lines 617-661: the table built from features, th and m
Detect(method, table, th, m) ==
    LET afterStat == IF RunsStat(method) THEN StatStep(table, th) ELSE table
        afterMl == IF RunsMl(method, m) THEN MlStep(afterStat, m, th) ELSE afterStat
    IN IF method = "hybrid" THEN HybridStep(afterMl) ELSE afterMl

\* variant: the table is built from the thresholds and the classifier held
\* when the call began
DetectResult_FromEntryState(method, o, trace) ==
    IF RunsMl(method, model) /\ TransformError(Get(features), scaler) # ""
    THEN Err("detect_cme_events", method, TransformError(Get(features), scaler), trace)
    ELSE Ok("detect_cme_events", method,
            Detect(method, Get(features), thresholds, model), trace)

DetectResult(method, o, trace) ==
    IF RunsMl(method, o.model) /\ TransformError(Get(features), o.scaler) # ""
    THEN Err("detect_cme_events", method, TransformError(Get(features), o.scaler), trace)
    ELSE Ok("detect_cme_events", method,
            Detect(method, Get(features), o.thresholds, o.model), trace)

Stored == Outcome("ok", "", thresholds, model, scaler, <<>>)

\* every way detect_cme_events(method) can end in the current state: the
\* thresholds, classifier and scaler it leaves (o) and what it returns (ret)
DetectCalls(method) ==
    IF IsNone(features)
    THEN {[o |-> Stored,
           ret |-> Err("detect_cme_events", method, "Features not available", <<>>)]}
    ELSE {[o |-> o,
           ret |-> IF o.status = "error"
                   THEN Err("detect_cme_events", method, o.error,
                            <<"determine_thresholds">> \o o.trace)
                   ELSE DetectResult(method, o,
                            IF DOMAIN thresholds = {} THEN <<"determine_thresholds">> \o o.trace
                            ELSE <<>>)] :
             o \in (IF DOMAIN thresholds = {} THEN DetermineOutcomes(method)
                    ELSE {Stored})}

DetectCall(method) ==
    \E call \in DetectCalls(method) :
        /\ thresholds' = call.o.thresholds
        /\ model' = call.o.model
        /\ scaler' = call.o.scaler
        /\ ret' = call.ret
        /\ UNCHANGED <<data_dir, swis_data, cme_catalog, features, config>>

detect_cme_events == \E method \in Methods : DetectCall(method)

(* -------------------------- validate_detection ------------------------ *)
Policies == <<"stat", "ml", "hybrid">>
DetectionCol(method) == CASE method = "stat" -> "stat_detection"
                          [] method = "ml" -> "ml_detection"
                          [] OTHER -> "hybrid_detection"
ConfidenceCol(method) == CASE method = "stat" -> "stat_confidence"
                           [] method = "ml" -> "ml_confidence"
                           [] OTHER -> "hybrid_confidence"

\* labeled rows with the timestamp of r, in their order
MatchesOf(r, labeled) == SelectSeq(labeled, LAMBDA l : l.timestamp = r.timestamp)

\* detection_results.merge(labeled[['timestamp', 'is_cme']], on='timestamp',
\* how='inner'): one row per pair of rows with equal timestamps
RECURSIVE MergeRows(_, _)
MergeRows(rows, labeled) ==
    IF rows = <<>> THEN <<>>
    ELSE [j \in 1..Len(MatchesOf(Head(rows), labeled)) |->
             WithColumn(Head(rows), "is_cme", MatchesOf(Head(rows), labeled)[j].is_cme)]
         \o MergeRows(Tail(rows), labeled)

MergeOnTimestamp(table, labeled) ==
    [cols |-> table.cols \cup {"is_cme"}, rows |-> MergeRows(table.rows, labeled.rows)]

\* confusion_matrix: the classes are those present in y_true or y_pred
ClassLabels(table, col) ==
    {table.rows[i].is_cme : i \in 1..Len(table.rows)}
        \cup {table.rows[i][col] : i \in 1..Len(table.rows)}

\* entry [t][p] of the matrix: rows with y_true = t and y_pred = p
Cell(table, col, t, p) ==
    Cardinality({i \in 1..Len(table.rows) :
                    table.rows[i].is_cme = t /\ table.rows[i][col] = p})

\* confusion_matrix(y_true, y_pred).ravel(), row by row over the classes
Ravel(table, col) ==
    IF ClassLabels(table, col) = {0, 1}
    THEN <<Cell(table, col, 0, 0), Cell(table, col, 0, 1),
           Cell(table, col, 1, 0), Cell(table, col, 1, 1)>>
    ELSE IF ClassLabels(table, col) = {} THEN <<>>
    ELSE <<Len(table.rows)>>

\* variant: the quotient is taken also when nothing was predicted positive
Precision_Unguarded(tp, fp) == Frac(tp, tp + fp)

Precision(tp, fp) == IF tp + fp > 0 THEN Frac(tp, tp + fp) ELSE ZeroFrac
Recall(tp, fn) == IF tp + fn > 0 THEN Frac(tp, tp + fn) ELSE ZeroFrac

\* 2 * precision * recall / (precision + recall) if (precision + recall) > 0 else 0
F1Score(p, r) ==
    IF p.num * r.den + r.num * p.den > 0
    THEN Frac(2 * p.num * r.num, p.num * r.den + r.num * p.den)
    ELSE ZeroFrac

\* roc_curve and auc: NaN when y_true holds a single class
AucOf(table) ==
    IF {table.rows[i].is_cme : i \in 1..Len(table.rows)} = {0, 1} THEN "number" ELSE "nan"

\* the entry of one policy; tn, fp, fn, tp are the four raveled counts
MetricsOf(table, method) ==
    LET c == Ravel(table, DetectionCol(method))
        tn == c[1]
        fp == c[2]
        fn == c[3]
        tp == c[4]
        base == [true_positives |-> tp, false_positives |-> fp,
                 true_negatives |-> tn, false_negatives |-> fn,
                 precision |-> Precision(tp, fp),
                 recall |-> Recall(tp, fn),
                 f1_score |-> F1Score(Precision(tp, fp), Recall(tp, fn)),
                 accuracy |-> Divide(tp + tn, tp + tn + fp + fn)]
    IN IF ConfidenceCol(method) \in table.cols
       THEN [k \in DOMAIN base \cup {"auc"} |-> IF k = "auc" THEN AucOf(table) ELSE base[k]]
       ELSE base

\* the exception the loop body raises for one policy ("" if none)
PolicyError(table, method) ==
    IF DetectionCol(method) \notin table.cols THEN ""
    ELSE IF Len(Ravel(table, DetectionCol(method))) # 4
    THEN "ValueError: not enough values to unpack"
    ELSE IF /\ ConfidenceCol(method) \in table.cols
            /\ \E i \in 1..Len(table.rows) : IsNaNFrac(table.rows[i][ConfidenceCol(method)])
    THEN "ValueError: Input contains NaN"
    ELSE ""

\* the first exception of the loop over ['stat', 'ml', 'hybrid']
RECURSIVE FirstError(_, _)
FirstError(table, methods) ==
    IF methods = <<>> THEN ""
    ELSE IF PolicyError(table, Head(methods)) # "" THEN PolicyError(table, Head(methods))
    ELSE FirstError(table, Tail(methods))

ValidationMetrics(table) ==
    [method \in {Policies[i] : i \in {j \in 1..Len(Policies) :
                                        DetectionCol(Policies[j]) \in table.cols}} |->
        MetricsOf(table, method)]

NoMetrics == [method \in {} |-> 0]

\* the value validate_detection returns, with the merged table it evaluated
Validated(status, error, table, metrics) ==
    [op |-> "validate_detection", arg |-> ret.arg, status |-> status, error |-> error,
     table |-> table, trace |-> <<"label_cme_events">>, metrics |-> metrics]

\* detection_results is the table the preceding detect_cme_events returned
validate_detection ==
    /\ ret.op = "detect_cme_events" /\ ret.status = "ok"
    /\ ret' = IF LabelError # ""
              THEN Validated("error", LabelError, NoTable, NoMetrics)
              ELSE LET merged == MergeOnTimestamp(ret.table, Labeled)
                   IN IF FirstError(merged, Policies) # ""
                      THEN Validated("error", FirstError(merged, Policies), merged, NoMetrics)
                      ELSE Validated("ok", "", merged, ValidationMetrics(merged))
    /\ UNCHANGED <<data_dir, swis_data, cme_catalog, features, thresholds, model, scaler,
                   config>>

(* --------------------------- specification ---------------------------- *)
\* the stages called one by one; no run_complete_analysis call is under way
Next ==
    \/ load_cme_catalog /\ UNCHANGED run
    \/ load_swis_data /\ UNCHANGED run
    \/ extract_features /\ UNCHANGED run
    \/ label_cme_events /\ UNCHANGED run
    \/ determine_thresholds /\ UNCHANGED run
    \/ detect_cme_events /\ UNCHANGED run
    \/ validate_detection /\ UNCHANGED run

Spec == Init /\ [][Next]_vars

(* The labeling operations alone, under several settings of               *)
(* config['cme_window_hours'].                                            *)
WindowInputs == {0, 71, 72, 73}

InitWindow ==
    /\ data_dir \in [series : SeriesInputs, events : CatalogInputs]
    /\ Containers
    /\ \E w \in WindowInputs : config = [cme_window_hours |-> w]
    /\ run = NoRun

NextWindow ==
    \/ load_cme_catalog /\ UNCHANGED run
    \/ load_swis_data /\ UNCHANGED run
    \/ extract_features /\ UNCHANGED run
    \/ label_cme_events /\ UNCHANGED run

SpecWindow == InitWindow /\ [][NextWindow]_vars

(* =========================== preprocessing ============================ *)
(* ------------------- HaloCMEDetector.preprocess_data ------------------ *)
physical_limits ==
    [proton_velocity |-> [min |-> Num(200), max |-> Some(Num(1200))],
     proton_density |-> [min |-> Frac(1, 10), max |-> Some(Num(100))],
     proton_temperature |-> [min |-> Num(10000), max |-> Some(Num(10000000))],
     proton_flux |-> [min |-> Num(0), max |-> None]]

\* self.swis_data.dropna(): rows with a missing value in any column go
DropNa(rows) == SelectSeq(rows, LAMBDA r : \A p \in ParamSet : ~IsNaNFrac(r[p]))

\* variant: the upper limit is not applied
FilterParam_NoUpper(rows, param) ==
    SelectSeq(rows, LAMBDA r : FracLeq(physical_limits[param].min, r[param]))

\* the two boolean selections of one parameter: whole rows are removed
FilterParam(rows, param) ==
    LET lim == physical_limits[param]
        above == SelectSeq(rows, LAMBDA r : FracLeq(lim.min, r[param]))
    IN IF IsNone(lim.max) THEN above
       ELSE SelectSeq(above, LAMBDA r : FracLeq(r[param], Get(lim.max)))

RECURSIVE FilterParams(_, _)
FilterParams(rows, params) ==
    IF params = <<>> THEN rows
    ELSE FilterParams(FilterParam(rows, Head(params)), Tail(params))

Bucket(t) == t \div Cadence

RECURSIVE SumOf(_)
SumOf(vals) == IF vals = <<>> THEN ZeroFrac ELSE FracAdd(Head(vals), SumOf(Tail(vals)))

\* mean of the non-missing values; NaN when there is none
Mean(vals) ==
    LET present == SelectSeq(vals, LAMBDA x : ~IsNaNFrac(x))
    IN IF present = <<>> THEN NaNFrac
       ELSE Reduce(Frac(SumOf(present).num, SumOf(present).den * Len(present)))

ColumnOf(rows, param) == [i \in 1..Len(rows) |-> rows[i][param]]

\* the row of bucket b: each column averaged over the samples of the bucket
BucketRow(rows, b) ==
    LET inside == SelectSeq(rows, LAMBDA r : Bucket(r.timestamp) = b)
    IN [k \in RawCols |-> IF k = "timestamp" THEN b * Cadence
                          ELSE Mean(ColumnOf(inside, k))]

\* resample(time_resolution).mean(): every bucket from the first to the last
Resample(rows) ==
    IF rows = <<>> THEN <<>>
    ELSE LET buckets == {Bucket(rows[i].timestamp) : i \in 1..Len(rows)}
             lo == CHOOSE b \in buckets : \A c \in buckets : b <= c
             hi == CHOOSE b \in buckets : \A c \in buckets : c <= b
         IN [i \in 1..(hi - lo + 1) |-> BucketRow(rows, lo + i - 1)]

\* np.interp(x, xp, fp) over the valid positions: linear between the
\* neighbours in x, the end values outside them
NpInterp(x, xs, ys, valid) ==
    LET lower == {j \in valid : xs[j] <= x}
        upper == {j \in valid : xs[j] >= x}
        first == CHOOSE j \in valid : \A k \in valid : xs[j] <= xs[k]
        last == CHOOSE j \in valid : \A k \in valid : xs[k] <= xs[j]
        p == CHOOSE j \in lower : \A k \in lower : xs[k] <= xs[j]
        q == CHOOSE j \in upper : \A k \in upper : xs[j] <= xs[k]
    IN IF lower = {} THEN ys[first]
       ELSE IF upper = {} THEN ys[last]
       ELSE IF xs[p] = xs[q] THEN ys[p]
       ELSE Lerp(ys[p], ys[q], x - xs[p], xs[q] - xs[p])

\* Series.interpolate(limit=limit), forward direction: a missing value is
\* filled when a valid value lies at most limit positions before it
Interpolate(xs, ys, limit) ==
    LET valid == {j \in 1..Len(ys) : ~IsNaNFrac(ys[j])}
    IN [i \in 1..Len(ys) |->
          IF i \in valid THEN ys[i]
          ELSE IF \A j \in valid : j > i \/ i - j > limit THEN NaNFrac
          ELSE NpInterp(xs[i], xs, ys, valid)]

Positions(rows) == [i \in 1..Len(rows) |-> i]
Timestamps(rows) == [i \in 1..Len(rows) |-> rows[i].timestamp]

\* interpolate(method='linear', limit=30) of every column
InterpolateLinear(rows) ==
    [i \in 1..Len(rows) |->
        [k \in DOMAIN rows[i] |->
            IF k \in ParamSet
            THEN Interpolate(Positions(rows), ColumnOf(rows, k), GapLimit)[i]
            ELSE rows[i][k]]]

\* lines 301-322 on the rows of self.swis_data
Preprocessed(rows) == InterpolateLinear(Resample(FilterParams(DropNa(rows), Params)))

\* variant: the call on a detector without data leaves an empty table behind
preprocess_data_LeavesEmptyTable ==
    /\ IF IsNone(swis_data)
       THEN /\ ret' = Err("preprocess_data", <<>>, "No SWIS data loaded", <<>>)
            /\ swis_data' = Some(<<>>)
       ELSE /\ swis_data' = Some(Preprocessed(Get(swis_data)))
            /\ ret' = Ok("preprocess_data", Get(swis_data),
                         [cols |-> RawCols, rows |-> Preprocessed(Get(swis_data))], <<>>)
    /\ UNCHANGED <<data_dir, cme_catalog, features, thresholds, model, scaler, config>>

preprocess_data ==
    /\ IF IsNone(swis_data)
       THEN /\ ret' = Err("preprocess_data", <<>>, "No SWIS data loaded", <<>>)
            /\ UNCHANGED swis_data
       ELSE /\ swis_data' = Some(Preprocessed(Get(swis_data)))
            /\ ret' = Ok("preprocess_data", Get(swis_data),
                         [cols |-> RawCols, rows |-> Preprocessed(Get(swis_data))], <<>>)
    /\ UNCHANGED <<data_dir, cme_catalog, features, thresholds, model, scaler, config>>

(* -------------------- SWISDataLoader.preprocess_data ------------------ *)
data_quality_flags ==
    [proton_velocity |-> [min |-> Num(200), max |-> Num(1200)],
     proton_density |-> [min |-> Frac(1, 10), max |-> Num(100)],
     proton_temperature |-> [min |-> Num(10000), max |-> Num(10000000)],
     proton_flux |-> [min |-> Num(0), max |-> Num(10000)]]
outlier_threshold_sigma == 5
MinZscoreSamples == 10

\* df[~df.index.duplicated(keep='first')]
DropDuplicates(rows) ==
    LET keep == {i \in 1..Len(rows) :
                    \A j \in 1..(i - 1) : rows[j].timestamp # rows[i].timestamp}
        F[i \in 0..Len(rows)] ==
            IF i = 0 THEN <<>>
            ELSE IF i \in keep THEN Append(F[i - 1], rows[i]) ELSE F[i - 1]
    IN F[Len(rows)]

\* x < min or x > max; false for a missing value
OutOfRange(x, lim) ==
    /\ ~IsNaNFrac(x)
    /\ \/ x.num * lim.min.den < lim.min.num * x.den
       \/ x.num * lim.max.den > lim.max.num * x.den

\* _apply_quality_filters: an out-of-range value becomes NaN in its column
ApplyQualityFilters(rows) ==
    [i \in 1..Len(rows) |->
        [k \in DOMAIN rows[i] |->
            IF k \in ParamSet /\ OutOfRange(rows[i][k], data_quality_flags[k])
            THEN NaNFrac ELSE rows[i][k]]]

RECURSIVE SumNums(_)
SumNums(vals) == IF vals = <<>> THEN 0 ELSE Head(vals).num + SumNums(Tail(vals))
RECURSIVE SumSquares(_)
SumSquares(vals) ==
    IF vals = <<>> THEN 0 ELSE Head(vals).num * Head(vals).num + SumSquares(Tail(vals))

\* |zscore| > threshold among the valid values of a column (whole numbers
\* at this stage): (n x - S)^2 > threshold^2 (n Q - S^2)
IsOutlier(x, vals) ==
    LET valid == SelectSeq(vals, LAMBDA y : ~IsNaNFrac(y))
        n == Len(valid)
        d == n * x.num - SumNums(valid)
    IN /\ ~IsNaNFrac(x)
       /\ n > MinZscoreSamples
       /\ d * d > outlier_threshold_sigma * outlier_threshold_sigma
                    * (n * SumSquares(valid) - SumNums(valid) * SumNums(valid))

RemoveOutliers(rows) ==
    [i \in 1..Len(rows) |->
        [k \in DOMAIN rows[i] |->
            IF k \in ParamSet /\ IsOutlier(rows[i][k], ColumnOf(rows, k))
            THEN NaNFrac ELSE rows[i][k]]]

\* _interpolate_gaps: interpolate(method='time', limit=30) of each parameter
InterpolateGaps(rows) ==
    [i \in 1..Len(rows) |->
        [k \in DOMAIN rows[i] |->
            IF k \in ParamSet
            THEN Interpolate(Timestamps(rows), ColumnOf(rows, k), GapLimit)[i]
            ELSE rows[i][k]]]

AvailableCol(param) ==
    CASE param = "proton_velocity" -> "proton_velocity_available"
      [] param = "proton_density" -> "proton_density_available"
      [] param = "proton_temperature" -> "proton_temperature_available"
      [] OTHER -> "proton_flux_available"
AvailableCols == {AvailableCol(p) : p \in ParamSet}

\* _add_quality_indicators: availability flags and their mean
AddQualityIndicators(rows) ==
    [i \in 1..Len(rows) |->
        [k \in DOMAIN rows[i] \cup AvailableCols \cup {"data_quality_score"} |->
            IF k \in AvailableCols
            THEN (IF IsNaNFrac(rows[i][CHOOSE p \in ParamSet : AvailableCol(p) = k])
                  THEN 0 ELSE 1)
            ELSE IF k = "data_quality_score"
            THEN Reduce(Frac(Cardinality({p \in ParamSet : ~IsNaNFrac(rows[i][p])}),
                             Cardinality(ParamSet)))
            ELSE rows[i][k]]]

\* lines 223-248 on the rows of df
LoaderPreprocessed(rows) ==
    AddQualityIndicators(InterpolateGaps(RemoveOutliers(
        ApplyQualityFilters(DropDuplicates(rows)))))

\* df is the raw series of the data directory; the detector is not involved
SWISDataLoader_preprocess_data ==
    /\ ret' = Ok("SWISDataLoader.preprocess_data", data_dir.series,
                 [cols |-> RawCols \cup AvailableCols \cup {"data_quality_score"},
                  rows |-> LoaderPreprocessed(data_dir.series)], <<>>)
    /\ UNCHANGED <<data_dir, swis_data, cme_catalog, features, thresholds, model, scaler,
                   config>>

InitPreprocess ==
    /\ data_dir \in [series : RawInputs, events : {<<>>}]
    /\ DetectorInit

NextPreprocess ==
    \/ load_swis_data /\ UNCHANGED run
    \/ preprocess_data /\ UNCHANGED run
    \/ SWISDataLoader_preprocess_data /\ UNCHANGED run

SpecPreprocess == InitPreprocess /\ [][NextPreprocess]_vars

(* ============================== pipeline ============================== *)
(* Every stage of the detector, preprocessing included, on short raw       *)
(* series: samples three minutes apart and a catalog whose label window    *)
(* opens between them.                                                     *)
MaxRunSamples == 2
RunSamples == {RawSample(t, kind) : t \in {0, 6}, kind \in {"slow", "fast", "spike"}}
RunSeries == {s \in SeqsUpTo(RunSamples, MaxRunSamples) :
                 \A i, j \in 1..Len(s) : i < j => s[i].timestamp < s[j].timestamp}
\* the label window of the event opens at tick 4
RunArrivals == {Hours(WindowBeforeHours) + 4}
RunCatalogs == {CatalogOf(as) : as \in SeqsUpTo(RunArrivals, 1)}
RunInputs == [series : RunSeries, events : RunCatalogs]

InitPipeline ==
    /\ data_dir \in RunInputs
    /\ DetectorInit

NextPipeline ==
    \/ load_cme_catalog /\ UNCHANGED run
    \/ load_swis_data /\ UNCHANGED run
    \/ preprocess_data /\ UNCHANGED run
    \/ extract_features /\ UNCHANGED run
    \/ label_cme_events /\ UNCHANGED run
    \/ determine_thresholds /\ UNCHANGED run
    \/ detect_cme_events /\ UNCHANGED run
    \/ validate_detection /\ UNCHANGED run

SpecPipeline == InitPipeline /\ [][NextPipeline]_vars

(* ------------------------ run_complete_analysis ----------------------- *)
\* the calls inside the try block, in program order
Stages == <<"load_cme_catalog", "load_swis_data", "preprocess_data", "extract_features",
            "determine_thresholds", "detect_cme_events", "validate_detection",
            "visualize_results", "generate_report">>

\* plots go to output_dir; the detector is only read.  Writing a file can fail.
visualize_results ==
    /\ \E failed \in BOOLEAN :
          ret' = IF failed THEN Err("visualize_results", "", "OSError", <<>>)
                 ELSE Ok("visualize_results", "", NoTable, <<>>)
    /\ UNCHANGED <<data_dir, swis_data, cme_catalog, features, thresholds, model, scaler,
                   config>>

\* the report goes to output_dir; the detector is only read
generate_report ==
    /\ \E failed \in BOOLEAN :
          ret' = IF failed THEN Err("generate_report", "", "OSError", <<>>)
                 ELSE Ok("generate_report", "", NoTable, <<>>)
    /\ UNCHANGED <<data_dir, swis_data, cme_catalog, features, thresholds, model, scaler,
                   config>>

\* variant: the exception of a stage is logged and the run goes on
RunStatusAfter_Swallowed(r) == "running"

\* except Exception: logger.error(...); raise
RunStatusAfter(r) == IF r.status = "error" THEN "raised" ELSE "running"

\* the k-th call of the try block: it is reached only when the k - 1 calls
\* before it have returned
Step(k, stage) ==
    /\ run.status = "running"
    /\ Len(run.trace) = k - 1
    /\ stage
    /\ run' = [status |-> RunStatusAfter(ret'),
               trace |-> Append(run.trace, ret'.op),
               error |-> IF ret'.status = "error" THEN ret'.error ELSE "",
               detection_results |-> IF Stages[k] = "detect_cme_events" /\ ret'.status = "ok"
                                     THEN ret'.table ELSE run.detection_results]

\* the call: its arguments name the catalog file and the data files
RunCall ==
    /\ run.status # "running"
    /\ data_dir' \in RunInputs
    /\ run' = [status |-> "running", trace |-> <<>>, error |-> "",
               detection_results |-> NoTable]
    /\ UNCHANGED <<swis_data, cme_catalog, features, thresholds, model, scaler, config, ret>>

\* detection_results.to_csv and the return of the result dictionary
RunReturn ==
    /\ run.status = "running"
    /\ Len(run.trace) = Len(Stages)
    /\ \E failed \in BOOLEAN :
          /\ run' = [run EXCEPT !.status = IF failed THEN "raised" ELSE "returned",
                                !.error = IF failed THEN "OSError" ELSE ""]
          /\ ret' = IF failed THEN Err("run_complete_analysis", "", "OSError", run.trace)
                    ELSE Ok("run_complete_analysis", "", run.detection_results, run.trace)
    /\ UNCHANGED <<data_dir, swis_data, cme_catalog, features, thresholds, model, scaler,
                   config>>

run_complete_analysis ==
    \/ RunCall
    \/ Step(1, load_cme_catalog)
    \/ Step(2, load_swis_data)
    \/ Step(3, preprocess_data)
    \/ Step(4, extract_features)
    \/ Step(5, DetermineCall("hybrid"))
    \/ Step(6, DetectCall("hybrid"))
    \/ Step(7, validate_detection)
    \/ Step(8, visualize_results)
    \/ Step(9, generate_report)
    \/ RunReturn

SpecRun == InitPipeline /\ [][run_complete_analysis]_vars

(* ======================= properties of the claims ===================== *)
NRows(table) == Len(table.rows)
RowIdx(table) == 1..Len(table.rows)

Returned(op) == ret.op = op /\ ret.status = "ok"
DetectReturned(methods) == Returned("detect_cme_events") /\ ret.arg \in methods

\* the row lies in the window of at least one catalog event
Covered(t, catalog, hours) ==
    \E j \in 1..Len(catalog) :
        /\ catalog[j].estimated_arrival - Hours(WindowBeforeHours) <= t
        /\ t <= catalog[j].estimated_arrival + Hours(hours)

CoveringEvents(t, catalog, hours) ==
    {j \in 1..Len(catalog) :
        /\ catalog[j].estimated_arrival - Hours(WindowBeforeHours) <= t
        /\ t <= catalog[j].estimated_arrival + Hours(hours)}

\* a <= b or a >= b as numbers
IsNumber(x) == x.den > 0
NumLeq(a, b) == IsNumber(a) /\ IsNumber(b) /\ a.num * b.den <= b.num * a.den

(* C1: in the table returned by detect_cme_events('hybrid') every row has  *)
(* hybrid_detection = 1 exactly when stat_detection = 1 or ml_detection =  *)
(* 1, and hybrid_confidence is the larger of the row's stat_confidence and *)
(* ml_confidence: one of the two, and not below either.                    *)
C1_HybridIsOrAndMax ==
    DetectReturned({"hybrid"}) =>
        \A i \in RowIdx(ret.table) :
            LET r == ret.table.rows[i]
                statFlag == "stat_detection" \in ret.table.cols /\ r.stat_detection = 1
                mlFlag == "ml_detection" \in ret.table.cols /\ r.ml_detection = 1
            IN /\ (r.hybrid_detection = 1) <=> (statFlag \/ mlFlag)
               /\ r.hybrid_detection \in {0, 1}
               /\ {"stat_confidence", "ml_confidence"} \subseteq ret.table.cols =>
                     /\ NumLeq(r.stat_confidence, r.hybrid_confidence)
                     /\ NumLeq(r.ml_confidence, r.hybrid_confidence)
                     /\ \/ NumLeq(r.hybrid_confidence, r.stat_confidence)
                        \/ NumLeq(r.hybrid_confidence, r.ml_confidence)

\* votes of a row: non-ML entries of the stored ThresholdSet it exceeds
VotesOf(r) ==
    Cardinality({k \in DOMAIN thresholds \ MlKeys :
                    /\ r.v[k] # NaN
                    /\ IsNumber(thresholds[k])
                    /\ r.v[k] * thresholds[k].den > thresholds[k].num})

StatEntries == Cardinality(DOMAIN thresholds \ MlKeys)

(* C2: under the statistical policy the vote count of a row is the number  *)
(* of non-ML threshold entries its feature value exceeds; stat_detection   *)
(* is 1 exactly when that count is at least 2, and stat_confidence is the  *)
(* quotient count / number of non-ML threshold entries.                    *)
C2_StatVoteAndConfidence ==
    DetectReturned({"statistical", "hybrid"}) =>
        \A i \in RowIdx(ret.table) :
            LET r == ret.table.rows[i]
            IN /\ (r.stat_detection = 1) <=> (VotesOf(r) >= 2)
               /\ r.stat_detection \in {0, 1}
               /\ VotesOf(r) = 1 => r.stat_detection = 0
               /\ r.stat_confidence.num = VotesOf(r)
               /\ r.stat_confidence.den = StatEntries

C2_Witness ==
    /\ DetectReturned({"statistical"})
    /\ StatEntries = 5
    /\ \E i \in RowIdx(ret.table) :
          VotesOf(ret.table.rows[i]) = 1 /\ ret.table.rows[i].stat_detection = 0
    /\ \E i \in RowIdx(ret.table) :
          /\ VotesOf(ret.table.rows[i]) = 2
          /\ ret.table.rows[i].stat_detection = 1
          /\ ret.table.rows[i].stat_confidence = Frac(2, 5)
    /\ \E i \in RowIdx(ret.table), k \in KeySet :
          /\ IsNumber(thresholds[k])
          /\ ret.table.rows[i].v[k] * thresholds[k].den = thresholds[k].num

ConfidenceCols == {"stat_confidence", "ml_confidence", "hybrid_confidence"}
FlagCols == {"stat_detection", "ml_detection", "hybrid_detection"}

(* C3: after any sequence of determine_thresholds calls followed by        *)
(* detect_cme_events, every confidence in the result is a number in [0,1]  *)
(* and every detection flag is 0 or 1.                                     *)
C3_ConfidenceInUnitInterval ==
    Returned("detect_cme_events") =>
        \A i \in RowIdx(ret.table) :
            /\ \A c \in ConfidenceCols \cap ret.table.cols :
                  /\ IsNumber(ret.table.rows[i][c])
                  /\ 0 <= ret.table.rows[i][c].num
                  /\ ret.table.rows[i][c].num <= ret.table.rows[i][c].den
            /\ \A c \in FlagCols \cap ret.table.cols : ret.table.rows[i][c] \in {0, 1}

(* C4: label_cme_events sets is_cme = 1 for a row exactly when at least    *)
(* one catalog event has arrival - 6h <= timestamp <= arrival + 72h (ends  *)
(* inclusive) and 0 otherwise; overlapping windows union and a later event *)
(* never resets a row labeled by an earlier one.                           *)
C4_LabelIsUnionOfWindows ==
    Returned("label_cme_events") =>
        /\ NRows(ret.table) = NRows(Get(features))
        /\ \A i \in RowIdx(ret.table) :
              LET r == ret.table.rows[i]
              IN /\ r.is_cme \in {0, 1}
                 /\ (r.is_cme = 1) <=>
                       Covered(r.timestamp, Get(cme_catalog), config.cme_window_hours)

C4_Witness ==
    /\ Returned("label_cme_events")
    /\ config.cme_window_hours = DefaultCmeWindowHours
    /\ \E i \in RowIdx(ret.table) :
          /\ Cardinality(CoveringEvents(ret.table.rows[i].timestamp, Get(cme_catalog),
                                        config.cme_window_hours)) >= 2
          /\ ret.table.rows[i].is_cme = 1
    /\ \E i \in RowIdx(ret.table) :
          /\ CoveringEvents(ret.table.rows[i].timestamp, Get(cme_catalog),
                            config.cme_window_hours) = {1}
          /\ Len(Get(cme_catalog)) = 2
          /\ ret.table.rows[i].is_cme = 1
          /\ ret.table.rows[i].timestamp =
                Get(cme_catalog)[1].estimated_arrival - Hours(WindowBeforeHours)
    /\ \E i \in RowIdx(ret.table) :
          /\ ret.table.rows[i].is_cme = 1
          /\ \E j \in 1..Len(Get(cme_catalog)) :
                ret.table.rows[i].timestamp =
                    Get(cme_catalog)[j].estimated_arrival + Hours(DefaultCmeWindowHours)
    /\ \E i \in RowIdx(ret.table) : ret.table.rows[i].is_cme = 0

(* C5: the table returned by label_cme_events has exactly the rows of the  *)
(* feature table, in the same order and with the same values; the only     *)
(* difference is the added is_cme column (also for an empty event list).   *)
C5_LabelKeepsRows ==
    Returned("label_cme_events") =>
        /\ NRows(ret.table) = NRows(Get(features))
        /\ ret.table.cols = Get(features).cols \cup {"is_cme"}
        /\ \A i \in RowIdx(ret.table) :
              /\ DOMAIN ret.table.rows[i] = DOMAIN Get(features).rows[i] \cup {"is_cme"}
              /\ \A k \in DOMAIN Get(features).rows[i] :
                    ret.table.rows[i][k] = Get(features).rows[i][k]

C5_Witness ==
    /\ Returned("label_cme_events")
    /\ NRows(ret.table) >= 3
    /\ Get(cme_catalog) # <<>>
    /\ \E i, j \in RowIdx(ret.table) :
          /\ ret.table.rows[i].is_cme = 0
          /\ ret.table.rows[j].is_cme = 1
          /\ ret.table.rows[i].profile # ret.table.rows[j].profile

LabeledRows(table) == {i \in RowIdx(table) : table.rows[i].is_cme = 1}

(* C6: labeling is monotone in the window size: with the same feature      *)
(* table and events, a larger cme_window_hours labels a superset of the    *)
(* rows labeled with the smaller value.                                    *)
C6_LabelMonotoneInWindow ==
    Returned("label_cme_events") =>
        \A w \in WindowInputs :
            w >= config.cme_window_hours =>
                /\ LabeledRows(ret.table) \subseteq
                      LabeledRows(LabelTable(Get(features), Get(cme_catalog), w))
                /\ Cardinality(LabeledRows(ret.table)) <=
                      Cardinality(LabeledRows(LabelTable(Get(features), Get(cme_catalog), w)))

C6_Witness ==
    /\ Returned("label_cme_events")
    /\ LabeledRows(ret.table) # {}
    /\ \E w \in WindowInputs :
          /\ w > config.cme_window_hours
          /\ LabeledRows(LabelTable(Get(features), Get(cme_catalog), w))
                \ LabeledRows(ret.table) # {}

\* the k-th smallest entry of a sequence, by rank
KthSmallest(vals, k) ==
    CHOOSE x \in {vals[i] : i \in 1..Len(vals)} :
        /\ Cardinality({i \in 1..Len(vals) : vals[i] < x}) < k
        /\ k <= Cardinality({i \in 1..Len(vals) : vals[i] <= x})

\* 95th percentile (times 100) of a non-empty sequence of numbers
Percentile95x100(vals) ==
    LET pos == 95 * (Len(vals) - 1)
        lo == KthSmallest(vals, pos \div 100 + 1)
    IN IF pos % 100 = 0 THEN 100 * lo
       ELSE 100 * lo + (pos % 100) * (KthSmallest(vals, pos \div 100 + 2) - lo)

\* values of a key feature over the rows no catalog event covers
BackgroundValues(param) ==
    LET rows == Get(features).rows
        keep == SelectSeq(rows, LAMBDA r :
                    ~Covered(r.timestamp, Get(cme_catalog), config.cme_window_hours)
                    /\ r.v[param] # NaN)
    IN [i \in 1..Len(keep) |-> keep[i].v[param]]

Calibrated(methods) ==
    \/ Returned("determine_thresholds") /\ ret.arg \in methods
    \/ /\ DetectReturned(methods)
       /\ ret.trace # <<>>

(* C7: each key feature's statistical threshold is the 95th percentile of  *)
(* that feature over the rows with is_cme = 0 only, so the values of rows  *)
(* with is_cme = 1 have no influence on any statistical threshold.         *)
C7_ThresholdIsBackgroundPercentile ==
    Calibrated({"statistical", "hybrid"}) =>
        \A param \in KeySet :
            /\ param \in DOMAIN thresholds
            /\ IF BackgroundValues(param) = <<>>
               THEN ~IsNumber(thresholds[param])
               ELSE /\ IsNumber(thresholds[param])
                    /\ thresholds[param].num * 100 =
                          Percentile95x100(BackgroundValues(param)) * thresholds[param].den

C7_Witness ==
    /\ Returned("determine_thresholds") /\ ret.arg = "statistical"
    /\ \E param \in KeySet :
          /\ Len(BackgroundValues(param)) >= 2
          /\ IsNumber(thresholds[param])
          /\ thresholds[param].num % thresholds[param].den # 0
          /\ \E i \in RowIdx(Get(features)) :
                /\ Covered(Get(features).rows[i].timestamp, Get(cme_catalog),
                           config.cme_window_hours)
                /\ Get(features).rows[i].v[param] * thresholds[param].den
                      > thresholds[param].num

(* C8: determine_thresholds with a method outside {statistical, ml,        *)
(* hybrid} is rejected before any computation: nothing is labeled or       *)
(* calibrated first, the error is the unknown-method error whatever the    *)
(* detector's state, and thresholds, model and scaler stay as they were.   *)
C8_UnknownMethodRejectedFirst ==
    [][(ret'.op = "determine_thresholds"
           /\ ret'.arg \notin {"statistical", "ml", "hybrid"}) =>
          /\ ret'.status = "error"
          /\ ret'.error = "Unknown threshold method"
          /\ ret'.trace = <<>>
          /\ UNCHANGED <<thresholds, model, scaler>>]_vars

(* C9: detect_cme_events with a selector outside {statistical, ml, hybrid} *)
(* is rejected with an error, with or without stored thresholds, and never *)
(* returns a result table.                                                 *)
C9_UnknownSelectorRejected ==
    (ret.op = "detect_cme_events" /\ ret.arg \notin {"statistical", "ml", "hybrid"}) =>
        ret.status = "error"

(* C10: detect_cme_events('ml') on a detector without a trained model      *)
(* reports an error and does not return a table lacking ml_detection and   *)
(* ml_confidence.                                                          *)
C10_MissingModelIsError ==
    (ret.op = "detect_cme_events" /\ ret.arg = "ml" /\ ~model.trained) =>
        ret.status = "error"

\* a = b as numbers
NumEq(a, b) == IsNumber(a) /\ IsNumber(b) /\ a.num * b.den = b.num * a.den

(* C11: a hybrid run on a detector calibrated statistically and holding no *)
(* trained classifier computes stat_detection and stat_confidence for     *)
(* every row, adds no ML column, and its hybrid_detection and             *)
(* hybrid_confidence equal the statistical flag and confidence row by row. *)
C11_HybridFallsBackToStat ==
    (DetectReturned({"hybrid"}) /\ ~model.trained) =>
        /\ {"stat_detection", "stat_confidence", "hybrid_detection",
            "hybrid_confidence"} \subseteq ret.table.cols
        /\ {"ml_detection", "ml_confidence"} \cap ret.table.cols = {}
        /\ NRows(ret.table) = NRows(Get(features))
        /\ \A i \in RowIdx(ret.table) :
              LET r == ret.table.rows[i]
              IN /\ r.stat_detection \in {0, 1}
                 /\ r.stat_confidence = Frac(VotesOf(r), StatEntries)
                 /\ r.hybrid_detection = r.stat_detection
                 /\ NumEq(r.hybrid_confidence, r.stat_confidence)

C11_Witness ==
    /\ DetectReturned({"hybrid"})
    /\ ~model.trained
    /\ ret.trace = <<>>
    /\ StatEntries = 5
    /\ \E i, j \in RowIdx(ret.table) :
          /\ ret.table.rows[i].stat_detection = 1
          /\ ret.table.rows[i].hybrid_detection = 1
          /\ ret.table.rows[i].hybrid_confidence.num > 0
          /\ ret.table.rows[j].stat_detection = 0
          /\ ret.table.rows[j].hybrid_detection = 0

\* rows of the evaluated table with the given label and flag of a policy
Count(table, col, label, flag) ==
    Cardinality({i \in RowIdx(table) :
                    table.rows[i].is_cme = label /\ table.rows[i][col] = flag})

Evaluated == ret.op = "validate_detection" /\ ret.table # NoTable

Degenerate(table, method) ==
    /\ DetectionCol(method) \in table.cols
    /\ \/ \A i \in RowIdx(table) : table.rows[i].is_cme = 0
       \/ \A i \in RowIdx(table) : table.rows[i][DetectionCol(method)] = 0
       \/ \A i \in RowIdx(table) : table.rows[i].is_cme = 1
       \/ \A i \in RowIdx(table) : table.rows[i][DetectionCol(method)] = 1

FiniteScores(table) ==
    \A c \in ConfidenceCols \cap table.cols :
        \A i \in RowIdx(table) : IsNumber(table.rows[i][c])

(* C13: validate_detection does not raise on degenerate inputs: when the   *)
(* evaluated rows hold no CME row, no predicted positive, or a single      *)
(* class, it returns a metrics entry whose counts sum to the row count and *)
(* whose precision, recall and F1 are 0 where their denominators are 0.    *)
C13_ValidateDegenerateReturns ==
    (/\ Evaluated
     /\ FiniteScores(ret.table)
     /\ \E method \in {"stat", "ml", "hybrid"} : Degenerate(ret.table, method)) =>
        /\ ret.status = "ok"
        /\ \A method \in DOMAIN ret.metrics :
              LET m == ret.metrics[method]
              IN /\ m.true_positives + m.true_negatives + m.false_positives
                        + m.false_negatives = NRows(ret.table)
                 /\ m.true_positives + m.false_positives = 0 => m.precision = ZeroFrac
                 /\ m.true_positives + m.false_negatives = 0 => m.recall = ZeroFrac

(* ------------------------------ preprocessing ------------------------- *)
Preprocessing ==
    ret.op \in {"preprocess_data", "SWISDataLoader.preprocess_data"} /\ ret.status = "ok"
ByDetector == ret.op = "preprocess_data" /\ ret.status = "ok"
ByLoader == ret.op = "SWISDataLoader.preprocess_data" /\ ret.status = "ok"

(* C14: the output of either preprocessing entry point has strictly        *)
(* increasing, pairwise distinct timestamps, and consecutive timestamps    *)
(* are exactly one cadence step apart.                                     *)
C14_UniformCadence ==
    Preprocessing =>
        /\ \A i, j \in RowIdx(ret.table) :
              i < j => ret.table.rows[i].timestamp < ret.table.rows[j].timestamp
        /\ \A i \in 1..(NRows(ret.table) - 1) :
              ret.table.rows[i + 1].timestamp = ret.table.rows[i].timestamp + Cadence

\* lo <= x <= hi as numbers, the bounds given as fractions
Within(x, lo, hi) == NumLeq(lo, x) /\ NumLeq(x, hi)

\* the physical range of each parameter
InPhysicalRange(param, x) ==
    CASE param = "proton_velocity" -> Within(x, Num(200), Num(1200))
      [] param = "proton_density" -> Within(x, Frac(1, 10), Num(100))
      [] param = "proton_temperature" -> Within(x, Num(10000), Num(10000000))
      [] OTHER -> NumLeq(Num(0), x)

(* C15: in the preprocessed output every non-missing value lies inside its *)
(* parameter's physical range, bucket averages and interpolated values     *)
(* included.                                                               *)
C15_ValuesInPhysicalRange ==
    Preprocessing =>
        \A i \in RowIdx(ret.table), p \in ParamSet :
            \/ IsNaNFrac(ret.table.rows[i][p])
            \/ InPhysicalRange(p, ret.table.rows[i][p])

\* samples of the input falling into the bucket of output row o
SamplesOf(o) == SelectSeq(ret.arg, LAMBDA r : Bucket(r.timestamp) = Bucket(o.timestamp))

C15_Witness ==
    /\ ByDetector
    /\ \E i \in RowIdx(ret.table) :
          /\ Len(SamplesOf(ret.table.rows[i])) = 2
          /\ \A k \in 1..2 :
                ~NumEq(SamplesOf(ret.table.rows[i])[k].proton_velocity,
                       ret.table.rows[i].proton_velocity)
          /\ IsNumber(ret.table.rows[i].proton_velocity)
    /\ \E i \in RowIdx(ret.table) :
          /\ SamplesOf(ret.table.rows[i]) = <<>>
          /\ IsNumber(ret.table.rows[i].proton_velocity)
          /\ \A j \in RowIdx(ret.table) \ {i} :
                ~NumEq(ret.table.rows[j].proton_velocity, ret.table.rows[i].proton_velocity)

\* the table just before the interpolation step of the entry point
BeforeInterpolation ==
    IF ret.op = "preprocess_data" THEN Resample(FilterParams(DropNa(ret.arg), Params))
    ELSE RemoveOutliers(ApplyQualityFilters(DropDuplicates(ret.arg)))

\* length of the run of missing values of column p around position i
\* (0 when the run touches either end of the series)
InnerRun(rows, p, i) ==
    LET valid == {j \in 1..Len(rows) : ~IsNaNFrac(rows[j][p])}
        before == {j \in valid : j < i}
        after == {j \in valid : j > i}
    IN IF before = {} \/ after = {} THEN 0
       ELSE (CHOOSE j \in after : \A k \in after : j <= k)
            - (CHOOSE j \in before : \A k \in before : k <= j) - 1

(* C16: a run of missing values is filled only when the whole run is no    *)
(* longer than the maximum gap: every value of a longer run stays missing, *)
(* and missing values before the first or after the last valid sample are  *)
(* never filled.                                                           *)
C16_OnlyShortInnerGapsFilled ==
    Preprocessing =>
        /\ NRows(ret.table) = Len(BeforeInterpolation)
        /\ \A i \in RowIdx(ret.table), p \in ParamSet :
              (/\ IsNaNFrac(BeforeInterpolation[i][p])
               /\ \/ InnerRun(BeforeInterpolation, p, i) = 0
                  \/ InnerRun(BeforeInterpolation, p, i) > GapLimit)
                 => IsNaNFrac(ret.table.rows[i][p])

HasOutOfRange(r) == \E p \in ParamSet : IsNumber(r[p]) /\ ~InPhysicalRange(p, r[p])

\* the timestamp under which the output holds input row r
OutputTime(r) == IF ret.op = "preprocess_data" THEN Bucket(r.timestamp) * Cadence
                 ELSE r.timestamp

\* r is the only sample of the input with its output timestamp
Alone(r) ==
    Cardinality({k \in 1..Len(ret.arg) : OutputTime(ret.arg[k]) = OutputTime(r)}) = 1

(* C17: range filtering acts per parameter: a row with an out-of-range     *)
(* value is kept, the value becomes missing, and the in-range values of    *)
(* the other parameters of the row are unchanged.                          *)
C17_RangeFilterKeepsRow ==
    Preprocessing =>
        \A k \in 1..Len(ret.arg) :
            (HasOutOfRange(ret.arg[k]) /\ Alone(ret.arg[k])) =>
                \E i \in RowIdx(ret.table) :
                    /\ ret.table.rows[i].timestamp = OutputTime(ret.arg[k])
                    /\ \A p \in ParamSet :
                          /\ (IsNumber(ret.arg[k][p]) /\ InPhysicalRange(p, ret.arg[k][p]))
                                => NumEq(ret.table.rows[i][p], ret.arg[k][p])
                          /\ (IsNumber(ret.arg[k][p]) /\ ~InPhysicalRange(p, ret.arg[k][p]))
                                => ~NumEq(ret.table.rows[i][p], ret.arg[k][p])

\* positions of the input holding the timestamp t
Occurrences(t) == {k \in 1..Len(ret.arg) : ret.arg[k].timestamp = t}
FirstOccurrence(t) == CHOOSE k \in Occurrences(t) : \A j \in Occurrences(t) : k <= j

(* C18: for a timestamp occurring more than once in the input exactly one  *)
(* output row is kept, with the values of the first occurrence (later      *)
(* duplicates are discarded, not averaged in); no duplicate survives.      *)
C18_FirstDuplicateKept ==
    Preprocessing =>
        /\ \A i, j \in RowIdx(ret.table) :
              i # j => ret.table.rows[i].timestamp # ret.table.rows[j].timestamp
        /\ \A k \in 1..Len(ret.arg) :
              LET t == ret.arg[k].timestamp
                  first == ret.arg[FirstOccurrence(t)]
              IN (/\ Cardinality(Occurrences(t)) > 1
                  /\ \A j \in 1..Len(ret.arg) :
                        OutputTime(ret.arg[j]) = OutputTime(first) => ret.arg[j].timestamp = t
                  /\ \A j \in Occurrences(t), p \in ParamSet :
                        IsNumber(ret.arg[j][p]) /\ InPhysicalRange(p, ret.arg[j][p]))
                 => \E i \in RowIdx(ret.table) :
                        /\ ret.table.rows[i].timestamp = OutputTime(first)
                        /\ \A p \in ParamSet : NumEq(ret.table.rows[i][p], first[p])

\* a row whose four parameters are all present and in range
ValidRow(r) == \A p \in ParamSet : IsNumber(r[p]) /\ InPhysicalRange(p, r[p])

(* C19: when the input is empty or none of its rows is valid, a            *)
(* preprocessing entry point fails with a data-unavailable error instead   *)
(* of returning an empty or all-missing series.                            *)
C19_NoValidRowIsError ==
    (/\ ret.op \in {"preprocess_data", "SWISDataLoader.preprocess_data"}
     /\ ret.arg # <<>> => \A k \in 1..Len(ret.arg) : ~ValidRow(ret.arg[k]))
        => ret.status = "error"

(* C20: extract_features returns exactly one row per timestamp of the      *)
(* series, and after the final forward and backward fill no computed       *)
(* column holds a missing value, also for a series shorter than the        *)
(* largest rolling window.                                                 *)
C20_FeaturesCompleteAndFilled ==
    Returned("extract_features") =>
        /\ NRows(ret.table) = Len(Get(swis_data))
        /\ \A i \in RowIdx(ret.table) :
              /\ ret.table.rows[i].timestamp = Get(swis_data)[i].timestamp
              /\ \A k \in KeySet : ret.table.rows[i].v[k] # NaN

(* C21: extract_features emits the wavelet detail columns exactly when the *)
(* series has at least the minimum length (the minimum itself included);   *)
(* a shorter series has none of them, and all other columns are present    *)
(* in both cases.                                                          *)
C21_WaveletColsFromMinimumLength ==
    Returned("extract_features") =>
        /\ {"timestamp"} \cup KeySet \subseteq ret.table.cols
        /\ IF NRows(ret.table) >= WaveletRows
           THEN WaveletCols \subseteq ret.table.cols
           ELSE WaveletCols \cap ret.table.cols = {}

C23_OnlyCalibrationChangesThresholds ==
    [][ret'.op \in {"detect_cme_events", "label_cme_events", "validate_detection"}
          => UNCHANGED <<thresholds, model, scaler>>]_vars

\* every key feature has one value in all rows of the table
ConstantKeys(table) ==
    \A k \in KeySet : \A i, j \in RowIdx(table) : table.rows[i].v[k] = table.rows[j].v[k]

\* no row of the stored feature table lies in the window of a catalog event
NoEventInside ==
    \A i \in RowIdx(Get(features)) :
        ~Covered(Get(features).rows[i].timestamp, Get(cme_catalog), config.cme_window_hours)

(* C26: for a series whose key features are constant over all rows and a   *)
(* catalog with no event inside it, every row is labeled is_cme = 0 and    *)
(* statistical detection with statistically calibrated thresholds flags no *)
(* row: a value equal to its threshold casts no vote.                      *)
C26_ConstantBackgroundNotFlagged ==
    (/\ DetectReturned({"statistical"})
     /\ LabelError = ""
     /\ thresholds = StatisticalThresholds(Labeled)
     /\ ConstantKeys(Get(features))
     /\ NoEventInside) =>
        /\ \A i \in RowIdx(Labeled) : Labeled.rows[i].is_cme = 0
        /\ \A i \in RowIdx(ret.table) :
              /\ ret.table.rows[i].stat_detection = 0
              /\ ret.table.rows[i].stat_confidence.num = 0

\* a constant series long enough for the windowed features, whose values
\* all sit on their thresholds
C26_Witness ==
    /\ DetectReturned({"statistical"})
    /\ LabelError = ""
    /\ thresholds = StatisticalThresholds(Labeled)
    /\ ConstantKeys(Get(features))
    /\ NoEventInside
    /\ NRows(ret.table) >= RollingRows
    /\ \A i \in RowIdx(ret.table) : \A k \in KeySet :
          /\ IsNumber(thresholds[k])
          /\ ret.table.rows[i].v[k] * thresholds[k].den = thresholds[k].num
          /\ ret.table.rows[i].stat_detection = 0

\* the labeled table of the current state holds a single label class
SingleClass ==
    /\ LabelError = ""
    /\ \/ ClassCount(Labeled, 0) = 0
       \/ ClassCount(Labeled, 1) = 0

(* C29: when the labeled rows hold a single class, determine_thresholds    *)
(* with method 'ml' or 'hybrid' fails with an error and leaves the stored  *)
(* thresholds and the stored classifier exactly as they were.              *)
C29_SingleClassCalibrationFails ==
    [][(/\ SingleClass
        /\ ret'.op = "determine_thresholds"
        /\ ret'.arg \in {"ml", "hybrid"}) =>
            /\ ret'.status = "error"
            /\ thresholds' = thresholds
            /\ model' = model
            /\ scaler' = scaler]_vars

\* a failed hybrid calibration on a detector that holds thresholds
C29_Witness ==
    /\ SingleClass
    /\ ret.op = "determine_thresholds"
    /\ ret.arg = "hybrid"
    /\ ret.status = "error"
    /\ ret.error = "IndexError: class_weights"
    /\ DOMAIN thresholds = KeySet
    /\ NRows(Get(features)) >= RollingRows

\* s is an initial part of t
IsPrefix(s, t) == Len(s) <= Len(t) /\ \A i \in 1..Len(s) : s[i] = t[i]

(* C27: run_complete_analysis calls the stages in the order load catalog,  *)
(* load data, preprocess, extract features, calibrate (hybrid), detect     *)
(* (hybrid), validate, visualize, report, one after the other; when a      *)
(* stage raises, the exception ends the run: no later stage is called and  *)
(* no result dictionary is returned, which takes all nine stages.          *)
C27_StagesInOrderAndAbortOnError ==
    [][/\ IsPrefix(run'.trace, Stages)
       /\ (run.status = "running" /\ run'.trace # run.trace
             /\ ret'.op \in {"determine_thresholds", "detect_cme_events"})
              => ret'.arg = "hybrid"
       /\ (run.status = "running" /\ ret'.status = "error")
              => run'.status = "raised" /\ run'.error = ret'.error
       /\ run.status = "raised"
              => run'.status = "running" /\ run'.trace = <<>>
       /\ run'.status = "returned"
              => /\ run'.trace = Stages
                 /\ ret'.op = "run_complete_analysis" /\ ret'.status = "ok"
       /\ (run.status = "running" /\ ret'.op = "run_complete_analysis"
             /\ ret'.status = "ok")
              => run.trace = Stages /\ run'.status = "returned"]_vars

\* a run stopped by a failed calibration, on a detector that still holds the
\* classifier of an earlier run that went through all stages
C27_Witness ==
    /\ run.status = "raised"
    /\ run.trace = SubSeq(Stages, 1, 5)
    /\ run.error = "IndexError: class_weights"
    /\ ret.op = "determine_thresholds" /\ ret.status = "error"
    /\ model.trained

\* the artifact the operation needs is missing
MissingPrerequisite(op) ==
    CASE op \in {"preprocess_data", "extract_features"} -> IsNone(swis_data)
      [] op \in {"label_cme_events", "determine_thresholds", "validate_detection"} ->
            IsNone(features) \/ IsNone(cme_catalog)
      [] op = "detect_cme_events" -> IsNone(features)
      [] OTHER -> FALSE

ClassifierApplied ==
    /\ ret.op = "detect_cme_events"
    /\ RunsMl(ret.arg, model)
    /\ ret.status = "ok" \/ ret.error = "ValueError: feature names"

(* C30: whenever detect_cme_events applies the trained classifier, the     *)
(* feature columns it hands to the scaler and the classifier are the       *)
(* columns they were trained on, whatever sequence of preprocess_data,     *)
(* extract_features, determine_thresholds and detect_cme_events came       *)
(* before, a re-extraction from a series of another length included.       *)
C30_DetectionUsesTrainedColumns ==
    ClassifierApplied =>
        FeatureCols(Get(features), {"timestamp", "stat_detection", "stat_confidence"})
            = scaler.cols

\* the stored thresholds are a calibration of the current feature table and
\* catalog, and so are the stored classifier and scaler
OwnThresholds ==
    \E method \in Methods : \E o \in DetermineOutcomes(method) :
        o.status = "ok" /\ o.thresholds = thresholds

OwnClassifier ==
    \E method \in {"ml", "hybrid"} : \E o \in DetermineOutcomes(method) :
        o.status = "ok" /\ o.model = model /\ o.scaler = scaler

(* C24: an analysis shares nothing with an earlier one on the same         *)
(* detector: the thresholds, the classifier and the scaler a detection     *)
(* has used are those calibrated on the feature table it ran on, never     *)
(* those an earlier analysis left behind.                                  *)
C24_DetectionUsesOwnCalibration ==
    Returned("detect_cme_events") =>
        /\ OwnThresholds
        /\ RunsMl(ret.arg, model) => OwnClassifier

====
